---- MODULE Spec2Model ----
(***************************************************************************)
(* Decodificador PRT-7 (src/main.cpp): a rotor (circular doubly linked     *)
(* list A..Z with a movable head), a payload list (doubly linked list of   *)
(* decoded characters), a serial line reader and the main loop that        *)
(* classifies each line (L,x / M,n / END) and dispatches it.               *)
(*                                                                         *)
(* Characters are their ASCII codes.  Pointers are node numbers; Nulo is   *)
(* nullptr.  The specifications share the variables:                       *)
(*   SpecRotor      the RotorDeMapeo object driven through its methods     *)
(*   Spec           main(): transport, line reader, dispatch, termination  *)
(*   SpecEscenario  main() fed the twelve lines of the README example      *)
(*   SpecTramas     main() fed well-formed and malformed L, and M, lines   *)
(*   SpecFalla      main() fed the example over a port that can fail       *)
(*   SpecSonda      main() fed seventeen lines without pause               *)
(*   SpecLector     leerLineaSerial called on chunks of bytes              *)
(*   SpecLista      the ListaDeCarga object driven through its methods     *)
(***************************************************************************)
EXTENDS Integers, Sequences, FiniteSets, TLC

VARIABLES
    rotor,            \* RotorDeMapeo: [cabeza, dato, siguiente, previo]
    carga,            \* ListaDeCarga: [cabeza, cola, dato, siguiente, previo]
    buffer,           \* main: char buffer[256], the last line read
    tramasRecibidas,  \* main: int tramasRecibidas
    bufferInterno,    \* leerLineaSerial: static bufferInterno[0..posBuffer)
    pc,               \* main: "abrir" | "leer" | "probar" | "fin" | "error"
    puerto,           \* the serial port: "cerrado" | "abierto" | "fallado"
    memoria,          \* the heap: live objects, bad deletes, most frames live
    mensaje,          \* what imprimirMensaje printed after the loop
    wire,             \* bytes the port has received and read() has not taken
    porLlegar,        \* bytes the sender has written that are still in transit
    enviadas,         \* sender: lines written so far, by kind
    giro,             \* history: sum of the deltas passed to rotar, mod 26
    bitacora          \* history (SpecRotor): the last two method calls

vars == <<rotor, carga, buffer, tramasRecibidas, bufferInterno, pc, puerto,
          memoria, mensaje, wire, porLlegar, enviadas, giro, bitacora>>

(***************************************************************************)
(* Bounds                                                                  *)
(***************************************************************************)
MaxDelta == 27        \* largest |n| rotar is called with in SpecRotor
MaxTramas == 15       \* lines the sender writes in Spec
MaxCargas == 2        \* of which L, lines
MaxMapas == 1         \* of which M, lines
MaxPrueba == 2        \* lines the sender writes in SpecTramas
MaxTrozos == 3        \* chunks of bytes the sender writes in SpecLector
MaxNodos == 3         \* characters inserted in SpecLista

(***************************************************************************)
(* Characters                                                              *)
(***************************************************************************)
Ascii == <<" ", "!", "dquote", "#", "$", "%", "&", "apostrophe", "(", ")", "*", "+", ",",
           "-", ".", "/", "0", "1", "2", "3", "4", "5", "6", "7", "8", "9",
           ":", ";", "<", "=", ">", "?", "@", "A", "B", "C", "D", "E", "F",
           "G", "H", "I", "J", "K", "L", "M", "N", "O", "P", "Q", "R", "S",
           "T", "U", "V", "W", "X", "Y", "Z", "[", "backslash", "]", "^", "_", "backtick",
           "a", "b", "c", "d", "e", "f", "g", "h", "i", "j", "k", "l", "m",
           "n", "o", "p", "q", "r", "s", "t", "u", "v", "w", "x", "y", "z",
           "{", "|", "}", "~">>

\* the code of a character literal: Ord("A") = 65
Ord(s) == 31 + CHOOSE i \in 1..Len(Ascii) : Ascii[i] = s

\* a string literal as an array of char, without its terminator
Str(ss) == [i \in 1..Len(ss) |-> Ord(ss[i])]

NUL == 0
LF == 10
CR == 13
Char == -128..127     \* char is signed on the platforms the program builds on

Letras == (Ord("A")..Ord("Z")) \cup (Ord("a")..Ord("z"))

(***************************************************************************)
(* RotorDeMapeo                                                            *)
(***************************************************************************)
NodosRotor == 0..25

\* the constructor with the circle closed on the second node instead of cabeza
RotorDeMapeoMalCerrado ==
    [cabeza    |-> 0,
     dato      |-> [k \in NodosRotor |-> Ord("A") + k],
     siguiente |-> [k \in NodosRotor |-> IF k < 25 THEN k + 1 ELSE 1],
     previo    |-> [k \in NodosRotor |-> IF k > 0 THEN k - 1 ELSE 25]]

\* RotorDeMapeo(): node k is the k-th node created, holding A + k; each new
\* node is linked after the previous one and the last is linked to cabeza
RotorDeMapeo ==
    [cabeza    |-> 0,
     dato      |-> [k \in NodosRotor |-> Ord("A") + k],
     siguiente |-> [k \in NodosRotor |-> IF k < 25 THEN k + 1 ELSE 0],
     previo    |-> [k \in NodosRotor |-> IF k > 0 THEN k - 1 ELSE 25]]

RECURSIVE Seguir(_, _, _)
\* nodo = nodo->enlace, once and then otros times more, from the last node of
\* camino; camino holds the nodes the loop has passed.  When a step comes
\* back to a node already passed, the steps that remain go round the same
\* nodes again, so the node they end on is read off camino: a loop of 2^31
\* passes is worked out in at most as many steps as there are nodes
Seguir(enlace, camino, otros) ==
    LET proximo == enlace[camino[Len(camino)]]
    IN  IF \E j \in 1..Len(camino) : camino[j] = proximo
        THEN LET j == CHOOSE j \in 1..Len(camino) : camino[j] = proximo
                 vuelta == Len(camino) - j + 1
             IN  camino[j + (otros % vuelta)]
        ELSE IF otros = 0 THEN proximo
        ELSE CHOOSE fin \in {Seguir(enlace, c, o) :
                                 c \in {Append(camino, proximo)},
                                 o \in {otros - 1}} : TRUE

\* for (i = 0; i < k; i++) nodo = nodo->siguiente;
Avanzar(r, nodo, k) ==
    IF k <= 0 THEN nodo ELSE Seguir(r.siguiente, <<nodo>>, k - 1)

\* for (i = 0; i > n; i--) nodo = nodo->previo;
Retroceder(r, nodo, n) ==
    IF n >= 0 THEN nodo ELSE Seguir(r.previo, <<nodo>>, -(n + 1))

\* rotar with the backward loop stopping one step early (i > n + 1)
rotarUnPasoMenos(r, n) ==
    IF n > 0 THEN [r EXCEPT !.cabeza = Avanzar(r, r.cabeza, n)]
    ELSE IF n < 0 THEN [r EXCEPT !.cabeza = Retroceder(r, r.cabeza, n + 1)]
    ELSE r

\* rotar with the backward branch following siguiente
rotarSiempreAdelante(r, n) ==
    IF n > 0 THEN [r EXCEPT !.cabeza = Avanzar(r, r.cabeza, n)]
    ELSE IF n < 0 THEN [r EXCEPT !.cabeza = Avanzar(r, r.cabeza, -n)]
    ELSE r

\* rotar moving the letters round the nodes instead of moving cabeza
rotarMoviendoDatos(r, n) ==
    [r EXCEPT !.dato = [k \in NodosRotor |-> r.dato[(k + n) % 26]]]

rotar(r, n) ==
    IF n > 0 THEN [r EXCEPT !.cabeza = Avanzar(r, r.cabeza, n)]
    ELSE IF n < 0 THEN [r EXCEPT !.cabeza = Retroceder(r, r.cabeza, n)]
    ELSE r

RECURSIVE Buscar(_, _, _, _)
\* the do-while of getMapeo: the number of steps from cabeza to the node
\* holding c, or the number of steps of a full turn when no node holds it
Buscar(r, actual, c, posicionEntrada) ==
    IF r.dato[actual] = c THEN posicionEntrada
    ELSE IF r.siguiente[actual] # r.cabeza
         THEN Buscar(r, r.siguiente[actual], c, posicionEntrada + 1)
         ELSE posicionEntrada + 1

\* getMapeo with the letter test written as one range A..z
getMapeoUnRango(r, in) ==
    IF in < Ord("A") \/ in > Ord("z") THEN in
    ELSE LET c == IF in >= Ord("a") /\ in <= Ord("z") THEN in - 32 ELSE in
             posicionEntrada == Buscar(r, r.cabeza, c, 0)
             resultado == Avanzar(r, r.cabeza, posicionEntrada)
         IN  r.dato[resultado]

\* getMapeo searching the ring for the letter as given, not uppercased
getMapeoSinMayuscula(r, in) ==
    IF (in < Ord("A") \/ in > Ord("Z")) /\ (in < Ord("a") \/ in > Ord("z"))
    THEN in
    ELSE LET posicionEntrada == Buscar(r, r.cabeza, in, 0)
             resultado == Avanzar(r, r.cabeza, posicionEntrada)
         IN  r.dato[resultado]

getMapeo(r, in) ==
    IF (in < Ord("A") \/ in > Ord("Z")) /\ (in < Ord("a") \/ in > Ord("z"))
    THEN in
    ELSE LET c == IF in >= Ord("a") /\ in <= Ord("z") THEN in - 32 ELSE in
             posicionEntrada == Buscar(r, r.cabeza, c, 0)
             resultado == Avanzar(r, r.cabeza, posicionEntrada)
         IN  r.dato[resultado]

\* the position of the rotor: the alphabetic index of the letter at cabeza
Posicion(r) == r.dato[r.cabeza] - Ord("A")

(***************************************************************************)
(* ListaDeCarga: node i is the i-th NodoCarga allocated                    *)
(***************************************************************************)
Nulo == 0

ListaDeCarga ==
    [cabeza |-> Nulo, cola |-> Nulo, dato |-> <<>>, siguiente |-> <<>>,
     previo |-> <<>>]

\* insertarAlFinal without cola->siguiente = nuevo
insertarAlFinalSinEnlace(l, d) ==
    LET nuevo == Len(l.dato) + 1
        conNodo == [l EXCEPT !.dato = Append(@, d),
                             !.siguiente = Append(@, Nulo),
                             !.previo = Append(@, Nulo)]
    IN  IF l.cabeza = Nulo
        THEN [conNodo EXCEPT !.cabeza = nuevo, !.cola = nuevo]
        ELSE [conNodo EXCEPT !.previo[nuevo] = l.cola, !.cola = nuevo]

\* insertarAlFinal without nuevo->previo = cola
insertarAlFinalSinPrevio(l, d) ==
    LET nuevo == Len(l.dato) + 1
        conNodo == [l EXCEPT !.dato = Append(@, d),
                             !.siguiente = Append(@, Nulo),
                             !.previo = Append(@, Nulo)]
    IN  IF l.cabeza = Nulo
        THEN [conNodo EXCEPT !.cabeza = nuevo, !.cola = nuevo]
        ELSE [conNodo EXCEPT !.siguiente[l.cola] = nuevo, !.cola = nuevo]

insertarAlFinal(l, d) ==
    LET nuevo == Len(l.dato) + 1
        conNodo == [l EXCEPT !.dato = Append(@, d),
                             !.siguiente = Append(@, Nulo),
                             !.previo = Append(@, Nulo)]
    IN  IF l.cabeza = Nulo
        THEN [conNodo EXCEPT !.cabeza = nuevo, !.cola = nuevo]
        ELSE [conNodo EXCEPT !.siguiente[l.cola] = nuevo,
                             !.previo[nuevo] = l.cola,
                             !.cola = nuevo]

RECURSIVE Recorrer(_, _)
\* while (actual) { emit actual->dato; actual = actual->siguiente; }
Recorrer(l, actual) ==
    IF actual = Nulo THEN <<>>
    ELSE <<l.dato[actual]>> \o Recorrer(l, l.siguiente[actual])

\* imprimirMensaje stopping at the last node without printing it
imprimirMensajeSinUltimo(l) ==
    LET todo == Recorrer(l, l.cabeza)
    IN  IF todo = <<>> THEN todo ELSE SubSeq(todo, 1, Len(todo) - 1)

\* the characters imprimirMensaje writes before the end of line
imprimirMensaje(l) == Recorrer(l, l.cabeza)

RECURSIVE RecorrerConFormato(_, _)
\* while (actual) { emit "[", actual->dato, "]"; actual = actual->siguiente; }
RecorrerConFormato(l, actual) ==
    IF actual = Nulo THEN <<>>
    ELSE <<Ord("["), l.dato[actual], Ord("]")>>
             \o RecorrerConFormato(l, l.siguiente[actual])

\* the characters imprimirConFormato writes
imprimirConFormato(l) == RecorrerConFormato(l, l.cabeza)

(***************************************************************************)
(* Tramas                                                                  *)
(***************************************************************************)
\* TramaLoad::procesar inserting the decoded character twice
TramaLoadProcesarDosVeces(l, r, caracter) ==
    insertarAlFinal(insertarAlFinal(l, getMapeo(r, caracter)), getMapeo(r, caracter))

\* TramaLoad::procesar: the list after the call
TramaLoadProcesar(l, r, caracter) ==
    LET decodificado == getMapeo(r, caracter)
    IN  insertarAlFinal(l, decodificado)

\* TramaMap::procesar: the rotor after the call
TramaMapProcesar(r, rotacion) == rotar(r, rotacion)

(***************************************************************************)
(* The heap: objects are <<class, number>>; a rotor node has the number of *)
(* its place in the ring, a list node the number of its allocation         *)
(***************************************************************************)
\* new: the object becomes live
Nuevo(m, obj) == [m EXCEPT !.vivos = @ \cup {obj}]

\* delete: the object stops being live; deleting what is not live is counted
Borrar(m, obj) ==
    IF obj \in m.vivos THEN [m EXCEPT !.vivos = @ \ {obj}]
    ELSE [m EXCEPT !.malLiberados = @ + 1]

TramasVivas(m) == {o \in m.vivos : o[1] = "Trama"}

\* new TramaLoad(...) / new TramaMap(...)
NuevaTrama(m) ==
    LET k == Cardinality(TramasVivas(m)) + 1
    IN  [m EXCEPT !.vivos = @ \cup {<<"Trama", k>>},
                  !.picoTramas = IF k > @ THEN k ELSE @]

\* the heap after main has handled a line of the given branch: new trama,
\* procesar (a TramaLoad makes insertarAlFinal allocate a node), delete trama
MemoriaDeTrama(m, tipo, l) ==
    IF tipo = "LOAD"
    THEN LET conTrama == NuevaTrama(m)
             trama == <<"Trama", Cardinality(TramasVivas(conTrama))>>
         IN  Borrar(Nuevo(conTrama, <<"NodoCarga", Len(l.dato) + 1>>), trama)
    ELSE IF tipo = "MAP"
    THEN LET conTrama == NuevaTrama(m)
             trama == <<"Trama", Cardinality(TramasVivas(conTrama))>>
         IN  Borrar(conTrama, trama)
    ELSE m

\* a sequence of deletes, in order: each object stops being live, and each
\* delete of an object that is not live (any more) is counted
BorrarTodos(m, objs) ==
    [vivos |-> m.vivos \ {objs[i] : i \in 1..Len(objs)},
     malLiberados |-> m.malLiberados
         + Cardinality({i \in 1..Len(objs) :
                           \/ objs[i] \notin m.vivos
                           \/ \E j \in 1..(i - 1) : objs[j] = objs[i]}),
     picoTramas |-> m.picoTramas]

RECURSIVE BorrarAnillo(_, _)
\* ~RotorDeMapeo: while (actual != cabeza) { temp = actual; actual =
\* actual->siguiente; delete temp; } -- the nodes deleted, in order
BorrarAnillo(r, actual) ==
    IF actual = r.cabeza THEN <<>>
    ELSE <<<<"NodoRotor", actual>>>> \o BorrarAnillo(r, r.siguiente[actual])

\* delete miRotorDeMapeo: the objects the destructor deletes, then the rotor
DestruirRotor(r) ==
    BorrarAnillo(r, r.siguiente[r.cabeza])
        \o <<<<"NodoRotor", r.cabeza>>, <<"RotorDeMapeo", 0>>>>

RECURSIVE BorrarNodos(_, _)
\* ~ListaDeCarga: while (actual) { temp = actual; actual = actual->siguiente;
\* delete temp; } -- the nodes deleted, in order
BorrarNodos(l, actual) ==
    IF actual = Nulo THEN <<>>
    ELSE <<<<"NodoCarga", actual>>>> \o BorrarNodos(l, l.siguiente[actual])

\* ~ListaDeCarga starting at the second node
DestruirListaSinPrimero(l) ==
    BorrarNodos(l, IF l.cabeza = Nulo THEN Nulo ELSE l.siguiente[l.cabeza])
        \o <<<<"ListaDeCarga", 0>>>>

\* delete miListaDeCarga: the objects the destructor deletes, then the list
DestruirLista(l) == BorrarNodos(l, l.cabeza) \o <<<<"ListaDeCarga", 0>>>>

\* delete miListaDeCarga; delete miRotorDeMapeo;
LiberarTodo(m, l, r) == BorrarTodos(m, DestruirLista(l) \o DestruirRotor(r))

\* the heap after new ListaDeCarga() and new RotorDeMapeo()
MemoriaInicial ==
    [vivos |-> {<<"ListaDeCarga", 0>>, <<"RotorDeMapeo", 0>>}
               \cup {<<"NodoRotor", k>> : k \in NodosRotor},
     malLiberados |-> 0,
     picoTramas |-> 0]

(***************************************************************************)
(* leerLineaSerial                                                         *)
(***************************************************************************)
TamBuffer == 256

\* the loop body without the test posBuffer > 0 at a terminator
PasoDeLecturaLineasVacias(e, c) ==
    IF e.ok THEN e
    ELSE IF c = LF \/ c = CR
         THEN [e EXCEPT !.ok = TRUE, !.leidos = @ + 1]
         ELSE IF Len(e.interno) < TamBuffer - 1
              THEN [e EXCEPT !.interno = Append(@, c), !.leidos = @ + 1]
              ELSE [e EXCEPT !.leidos = @ + 1]

\* one turn of while ((n = read(fd, &c, 1)) > 0) with the byte c read.
\* e.interno is bufferInterno[0..posBuffer), e.leidos the bytes taken from
\* the port, e.ok whether the function has returned true (no turn follows)
PasoDeLectura(e, c) ==
    IF e.ok THEN e
    ELSE IF c = LF \/ c = CR
         THEN IF Len(e.interno) > 0
              THEN [e EXCEPT !.ok = TRUE, !.leidos = @ + 1]
              ELSE [e EXCEPT !.leidos = @ + 1]
         ELSE IF Len(e.interno) < TamBuffer - 1
              THEN [e EXCEPT !.interno = Append(@, c), !.leidos = @ + 1]
              ELSE [e EXCEPT !.leidos = @ + 1]

RECURSIVE Lecturas(_, _, _, _)
\* the turns of the loop for the bytes w[desde..hasta], in order, up to the
\* turn that returns (the range is split in halves so that long inputs need
\* no deep recursion; mitad, the state after the first half, is bound as the
\* element of a one-element set so that it is computed once)
Lecturas(e, w, desde, hasta) ==
    IF desde > hasta THEN e
    ELSE IF desde = hasta THEN PasoDeLectura(e, w[desde])
    ELSE LET medio == (desde + hasta) \div 2
         IN  CHOOSE r \in {IF mitad.ok THEN mitad
                            ELSE Lecturas(mitad, w, medio + 1, hasta) :
                            mitad \in {Lecturas(e, w, desde, medio)}} : TRUE

\* w: the bytes read() can deliver now; bi: bufferInterno[0..posBuffer).
\* Returns whether a line was completed, the line copied to the caller's
\* buffer, the bytes left in the port and the new bufferInterno.
leerLineaSerial(w, bi, maxLen) ==
    CHOOSE r \in
        {IF e.ok
         THEN [ok |-> TRUE,
               linea |-> [i \in 1..(IF Len(e.interno) < maxLen - 1
                                    THEN Len(e.interno) ELSE maxLen - 1)
                          |-> e.interno[i]],
               wire |-> SubSeq(w, e.leidos + 1, Len(w)), interno |-> <<>>]
         ELSE [ok |-> FALSE, linea |-> <<>>,
               wire |-> SubSeq(w, e.leidos + 1, Len(w)), interno |-> e.interno] :
         e \in {Lecturas([ok |-> FALSE, interno |-> bi, leidos |-> 0],
                         w, 1, Len(w))}} : TRUE

(***************************************************************************)
(* main: classification of a line                                          *)
(***************************************************************************)
\* buffer[i]: a line of n characters has its terminator at index n; the
\* conditions of main never index past the terminator
At(buf, i) == IF i < Len(buf) THEN buf[i + 1] ELSE NUL

EsLoad(buf) == At(buf, 0) = Ord("L") /\ At(buf, 1) = Ord(",")

CaracterDeCarga(buf) ==
    LET caracter == At(buf, 2)
    IN  IF caracter = Ord("S") /\ At(buf, 3) = Ord("p") /\ At(buf, 4) = Ord("a")
           /\ At(buf, 5) = Ord("c") /\ At(buf, 6) = Ord("e")
        THEN Ord(" ")
        ELSE caracter

EsMap(buf) == At(buf, 0) = Ord("M") /\ At(buf, 1) = Ord(",")

\* int is 32 bits wide, two's complement, on the platforms the program
\* builds on
IntMax == 2147483647
IntMin == -IntMax - 1

\* half of the width of an int: 2^16
MedioInt == 65536

\* rotacion * 10 + digito as the integer alto * 2^16 + bajo, 0 <= bajo < 2^16,
\* worked out in halves of 16 bits
Decena(rotacion, digito) ==
    LET bajo == 10 * (rotacion % MedioInt) + digito
    IN  [alto |-> 10 * (rotacion \div MedioInt) + (bajo \div MedioInt),
         bajo |-> bajo % MedioInt]

\* line 566 overflows, and the behaviour of the program is undefined from
\* there on: the product rotacion * 10 is not an int, or the product is one
\* and adding digito to it does not give an int
Desborda(rotacion, digito) ==
    IF rotacion > IntMax \div 10 \/ rotacion < -(IntMax \div 10)
    THEN TRUE
    ELSE rotacion * 10 > IntMax - digito

\* what line 566 leaves in rotacion: rotacion * 10 + digito when it is an
\* int, and its low 32 bits when it is not, which is what every build of
\* the program that was run (g++ -O0, -O1, -O2, -O3, -Os) leaves there
DiezVecesMas(rotacion, digito) ==
    LET d == Decena(rotacion, digito)
    IN  (((d.alto + (MedioInt \div 2)) % MedioInt) - (MedioInt \div 2)) * MedioInt
            + d.bajo

RECURSIVE DigitosSinDecenas(_, _, _)
\* the digit loop without the multiplication by ten
DigitosSinDecenas(buf, i, rotacion) ==
    IF At(buf, 2 + i) >= Ord("0") /\ At(buf, 2 + i) <= Ord("9")
    THEN DigitosSinDecenas(buf, i + 1, rotacion + (At(buf, 2 + i) - Ord("0")))
    ELSE rotacion

\* numStr[i] >= '0' && numStr[i] <= '9'
EsCifra(buf, i) == At(buf, 2 + i) >= Ord("0") /\ At(buf, 2 + i) <= Ord("9")

\* the value of i at which the digit loop, entered at i, stops: the index of
\* the first character from numStr[i] on that is not a digit (the terminator
\* at the latest)
FinDeCifras(buf, i) ==
    CHOOSE j \in i..Len(buf) :
        ~EsCifra(buf, j) /\ \A k \in i..(j - 1) : EsCifra(buf, k)

RECURSIVE Pasadas(_, _, _, _)
\* rotacion after the passes of the digit loop over numStr[desde..hasta], all
\* of them digits: the passes of the first half and then, from what they
\* leave, the passes of the second half (a numeral may fill the line, and a
\* pass by pass recursion would be that deep)
Pasadas(buf, desde, hasta, rotacion) ==
    IF desde > hasta THEN rotacion
    ELSE IF desde = hasta
    THEN DiezVecesMas(rotacion, At(buf, 2 + desde) - Ord("0"))
    ELSE LET medio == (desde + hasta) \div 2
         IN  CHOOSE fin \in {Pasadas(buf, medio + 1, hasta, mitad) :
                                 mitad \in {Pasadas(buf, desde, medio, rotacion)}} :
                 TRUE

\* while (numStr[i] >= '0' && numStr[i] <= '9') rotacion = rotacion*10 + digit
Digitos(buf, i, rotacion) ==
    Pasadas(buf, i, FinDeCifras(buf, i) - 1, rotacion)

\* some pass of the digit loop overflows
DigitosDesbordan(buf, i, rotacion) ==
    \E j \in i..(FinDeCifras(buf, i) - 1) :
        Desborda(Pasadas(buf, i, j - 1, rotacion), At(buf, 2 + j) - Ord("0"))

\* if (numStr[0] == '-')
Negativo(buf) == At(buf, 2) = Ord("-")

\* the value of rotacion that TramaMap is built with (and prints).  -rotacion
\* is not an int when rotacion is the least int: line 570 overflows, and
\* every build that was run leaves the least int there
Rotacion(buf) ==
    LET negativo == Negativo(buf)
        rotacion == Digitos(buf, IF negativo THEN 1 ELSE 0, 0)
    IN  IF negativo
        THEN IF rotacion = IntMin THEN IntMin ELSE -rotacion
        ELSE rotacion

\* the parse of the line overflows an int, at line 566 or at line 570
RotacionIndefinida(buf) ==
    LET negativo == Negativo(buf)
        i == IF negativo THEN 1 ELSE 0
    IN  \/ DigitosDesbordan(buf, i, 0)
        \/ negativo /\ Digitos(buf, i, 0) = IntMin

\* new TramaMap(rotacion) and procesar after an overflow, in the builds that
\* optimise (g++ -O2, -O3).  The compiler takes the digit loop to leave
\* rotacion >= 0.  For a numeral without sign the forward loop of rotar then
\* runs until i has the 32 bits of rotacion: 2^32 + rotacion passes when
\* rotacion reads negative.  For a numeral with sign the branch n > 0 of rotar
\* is dropped and the backward loop enters its first pass without the test
\* i > n, so it makes one pass when -rotacion reads positive
TramaMapProcesarOptimizado(r, negativo, rotacion) ==
    IF ~negativo /\ rotacion < 0
    THEN [r EXCEPT !.cabeza =
             Avanzar(r, Avanzar(r, Avanzar(r, r.cabeza, IntMax), 1),
                     (rotacion + IntMax) + 1)]
    ELSE IF negativo /\ rotacion > 0
    THEN [r EXCEPT !.cabeza = Retroceder(r, r.cabeza, -1)]
    ELSE TramaMapProcesar(r, rotacion)

\* the rotor after the MAP branch of main has processed the line.  Within
\* the range of int it is rotar(rotacion).  After an overflow the behaviour is
\* undefined: the rotor is the one any of the builds leaves, rotar of the
\* wrapped value (g++ -O0, -O1, -Os) or the optimised loops (g++ -O2, -O3)
RotoresTrasMapa(r, buf) ==
    IF RotacionIndefinida(buf)
    THEN {TramaMapProcesar(r, Rotacion(buf)),
          TramaMapProcesarOptimizado(r, Negativo(buf), Rotacion(buf))}
    ELSE {TramaMapProcesar(r, Rotacion(buf))}

\* the END test with its third comparison mistyped
EsFinMalEscrito(buf) ==
    At(buf, 0) = Ord("E") /\ At(buf, 1) = Ord("N") /\ At(buf, 2) = Ord("N")

EsFin(buf) ==
    At(buf, 0) = Ord("E") /\ At(buf, 1) = Ord("N") /\ At(buf, 2) = Ord("D")

\* the branch of main's if / else-if chain a line takes
Tipo(buf) ==
    IF EsLoad(buf) THEN "LOAD"
    ELSE IF EsMap(buf) THEN "MAP"
    ELSE IF EsFin(buf) THEN "END"
    ELSE "NINGUNA"

\* the probe test with 5 in the place of 15
TocaProbarCadaCinco(n) == n > 0 /\ n % 5 = 0

\* tramasRecibidas > 0 && tramasRecibidas % 15 == 0
TocaProbar(n) == n > 0 /\ n % 15 = 0

(***************************************************************************)
(* The sender                                                              *)
(***************************************************************************)
LineasCarga == {Str(<<"L", ",", "A">>), Str(<<"L", ",", "w">>),
                Str(<<"L", ",", "S", "p", "a", "c", "e">>)}
LineasMapa == {Str(<<"M", ",", "2">>), Str(<<"M", ",", "-", "2">>),
               Str(<<"M", ",", "-", "2", "7">>)}
LineasOtras == {Str(<<"X", ",", "?">>), Str(<<"E", "N", "D">>),
                Str(<<"E", "N", "D", "X">>)}
Lineas == LineasCarga \cup LineasMapa \cup LineasOtras

\* the twelve lines of the README example, each followed by a line feed
RECURSIVE Unir(_)
Unir(ls) == IF ls = <<>> THEN <<>> ELSE Head(ls) \o <<LF>> \o Unir(Tail(ls))

Escenario ==
    Unir(<<Str(<<"L", ",", "H">>), Str(<<"L", ",", "O">>),
           Str(<<"L", ",", "L">>), Str(<<"M", ",", "2">>),
           Str(<<"L", ",", "A">>),
           Str(<<"L", ",", "S", "p", "a", "c", "e">>),
           Str(<<"L", ",", "W">>), Str(<<"M", ",", "-", "2">>),
           Str(<<"L", ",", "O">>), Str(<<"L", ",", "R">>),
           Str(<<"L", ",", "L">>), Str(<<"L", ",", "D">>)>>)

\* the sender writes one more line; it pauses between lines (delay(1000) in
\* the README) for longer than the decoder's 100 ms poll, so the previous
\* line has left the port by then
Enviar(l) ==
    /\ porLlegar = <<>>
    /\ wire = <<>>
    /\ enviadas.total < MaxTramas
    /\ l \in LineasCarga => enviadas.cargas < MaxCargas
    /\ l \in LineasMapa => enviadas.mapas < MaxMapas
    /\ porLlegar' = l \o <<LF>>
    /\ enviadas' = [total  |-> enviadas.total + 1,
                    cargas |-> enviadas.cargas + (IF l \in LineasCarga THEN 1 ELSE 0),
                    mapas  |-> enviadas.mapas + (IF l \in LineasMapa THEN 1 ELSE 0)]
    /\ UNCHANGED <<rotor, carga, buffer, tramasRecibidas, bufferInterno, pc,
                   puerto, memoria, mensaje, wire, giro, bitacora>>

\* one byte in transit reaches the port
Llegar ==
    /\ porLlegar # <<>>
    /\ wire' = Append(wire, Head(porLlegar))
    /\ porLlegar' = Tail(porLlegar)
    /\ UNCHANGED <<rotor, carga, buffer, tramasRecibidas, bufferInterno, pc,
                   puerto, memoria, mensaje, enviadas, giro, bitacora>>

(***************************************************************************)
(* main                                                                    *)
(***************************************************************************)
\* what read() can take from the port: nothing once the port has failed
Legible == IF puerto = "abierto" THEN wire ELSE <<>>

\* abrirPuertoSerial and the test of its result: on failure main deletes the
\* list and the rotor and returns 1
AbrirPuerto ==
    /\ pc = "abrir"
    /\ \E abierto \in BOOLEAN :
           IF abierto
           THEN /\ pc' = "leer"
                /\ puerto' = "abierto"
                /\ memoria' = memoria
           ELSE /\ pc' = "error"
                /\ puerto' = puerto
                /\ memoria' = LiberarTodo(memoria, carga, rotor)
    /\ UNCHANGED <<rotor, carga, buffer, tramasRecibidas, bufferInterno,
                   mensaje, wire, porLlegar, enviadas, giro, bitacora>>

\* one pass of the while (true) body up to the usleep: leerLineaSerial, the
\* classification and dispatch of the line, the break on END (followed by the
\* final imprimirMensaje, the deletes and close) and the test that decides
\* whether the pass goes on to probe the port
Iterar ==
    /\ pc = "leer"
    /\ \E r \in {leerLineaSerial(Legible, bufferInterno, TamBuffer)} :
       \E girado \in IF r.ok /\ Tipo(r.linea) = "MAP"
                     THEN RotoresTrasMapa(rotor, r.linea)
                     ELSE {rotor} :
       LET n == IF r.ok THEN tramasRecibidas + 1 ELSE tramasRecibidas
           tipo == IF r.ok THEN Tipo(r.linea) ELSE "NINGUNA"
           trasTrama == MemoriaDeTrama(memoria, tipo, carga)
       IN  /\ wire' = IF puerto = "abierto" THEN r.wire ELSE wire
           /\ memoria' = IF tipo = "END"
                         THEN LiberarTodo(trasTrama, carga, rotor)
                         ELSE trasTrama
           /\ puerto' = IF tipo = "END" THEN "cerrado" ELSE puerto
           /\ bufferInterno' = r.interno
           /\ tramasRecibidas' = n
           /\ buffer' = IF r.ok THEN r.linea ELSE buffer
           /\ carga' = IF tipo = "LOAD"
                       THEN TramaLoadProcesar(carga, rotor, CaracterDeCarga(r.linea))
                       ELSE carga
           /\ rotor' = girado
           /\ giro' = IF tipo = "MAP"
                      THEN (giro + (Rotacion(r.linea) % 26)) % 26
                      ELSE giro
           /\ pc' = IF tipo = "END" THEN "fin"
                    ELSE IF TocaProbar(n) THEN "probar" ELSE "leer"
           /\ mensaje' = IF tipo = "END"
                         THEN Append(mensaje, imprimirMensaje(carga))
                         ELSE mensaje
    /\ UNCHANGED <<porLlegar, enviadas, bitacora>>

\* after the usleep: read(puerto, &test, 1); break when it returns <= 0
\* (followed by the final imprimirMensaje, the deletes and close), otherwise
\* the byte is in test and the loop goes round
Probar ==
    /\ pc = "probar"
    /\ IF Legible = <<>>
       THEN /\ pc' = "fin"
            /\ mensaje' = Append(mensaje, imprimirMensaje(carga))
            /\ wire' = wire
            /\ memoria' = LiberarTodo(memoria, carga, rotor)
            /\ puerto' = "cerrado"
       ELSE /\ pc' = "leer"
            /\ mensaje' = mensaje
            /\ wire' = Tail(wire)
            /\ memoria' = memoria
            /\ puerto' = puerto
    /\ UNCHANGED <<rotor, carga, buffer, tramasRecibidas, bufferInterno,
                   porLlegar, enviadas, giro, bitacora>>

InitPrograma ==
    /\ rotor = RotorDeMapeo
    /\ carga = ListaDeCarga
    /\ buffer = <<>>
    /\ tramasRecibidas = 0
    /\ bufferInterno = <<>>
    /\ pc = "abrir"
    /\ puerto = "cerrado"
    /\ memoria = MemoriaInicial
    /\ mensaje = <<>>
    /\ wire = <<>>
    /\ enviadas = [total |-> 0, cargas |-> 0, mapas |-> 0]
    /\ giro = 0
    /\ bitacora = <<>>

Init == InitPrograma /\ porLlegar = <<>>

Next ==
    \/ \E l \in Lineas : Enviar(l)
    \/ Llegar
    \/ AbrirPuerto
    \/ Iterar
    \/ Probar

Spec == Init /\ [][Next]_vars

(***************************************************************************)
(* SpecEscenario: the sender has written the lines of the README example   *)
(***************************************************************************)
InitEscenario == InitPrograma /\ porLlegar = Escenario

NextEscenario == Llegar \/ AbrirPuerto \/ Iterar

SpecEscenario == InitEscenario /\ [][NextEscenario]_vars

(***************************************************************************)
(* SpecRotor: the methods of RotorDeMapeo called in any order              *)
(***************************************************************************)
\* the arguments rotar is called with: short rotations either way, no
\* rotation, and rotations of about a full revolution and more
Deltas == {n \in (-MaxDelta)..MaxDelta : n \in -2..2 \/ n >= 25 \/ n <= -25}

Entradas == {Ord("A"), Ord("w"), Ord(" "), Ord("["), NUL}

\* the log keeps the last two calls
Anotar(b, llamada) == IF Len(b) < 2 THEN Append(b, llamada) ELSE <<b[2], llamada>>

LlamarRotar(n) ==
    /\ rotor' = rotar(rotor, n)
    /\ giro' = (giro + n) % 26
    /\ bitacora' = Anotar(bitacora, [op |-> "rotar", arg |-> n,
                                     antes |-> rotor.cabeza, res |-> 0])
    /\ UNCHANGED <<carga, buffer, tramasRecibidas, bufferInterno, pc, puerto,
                   memoria, mensaje, wire, porLlegar, enviadas>>

LlamarGetMapeo(in) ==
    /\ bitacora' = Anotar(bitacora, [op |-> "getMapeo", arg |-> in,
                                     antes |-> rotor.cabeza,
                                     res |-> getMapeo(rotor, in)])
    /\ UNCHANGED <<rotor, giro, carga, buffer, tramasRecibidas, bufferInterno,
                   pc, puerto, memoria, mensaje, wire, porLlegar, enviadas>>

NextRotor ==
    \/ \E n \in Deltas : LlamarRotar(n)
    \/ \E in \in Entradas : LlamarGetMapeo(in)

SpecRotor == Init /\ [][NextRotor]_vars

\* the example under the scheduling of the program: bytes in transit arrive,
\* the port gets opened, and the loop keeps making passes
SpecEscenarioJusto ==
    SpecEscenario /\ WF_vars(Llegar) /\ WF_vars(AbrirPuerto) /\ WF_vars(Iterar)

(***************************************************************************)
(* SpecFalla: the example over a port that can fail while main reads it    *)
(***************************************************************************)
\* the device fails: from now on read() returns -1
Fallar ==
    /\ puerto = "abierto"
    /\ puerto' = "fallado"
    /\ UNCHANGED <<rotor, carga, buffer, tramasRecibidas, bufferInterno, pc,
                   memoria, mensaje, wire, porLlegar, enviadas, giro, bitacora>>

NextFalla == Llegar \/ AbrirPuerto \/ Iterar \/ Fallar

SpecFalla ==
    /\ InitEscenario
    /\ [][NextFalla]_vars
    /\ WF_vars(Llegar) /\ WF_vars(AbrirPuerto) /\ WF_vars(Iterar)

(***************************************************************************)
(* SpecSonda: main fed seventeen lines by a sender that does not pause, so *)
(* that the probe made after the fifteenth can find the sixteenth arriving *)
(***************************************************************************)
TramasSonda ==
    [i \in 1..15 |-> Str(<<"L", ",", "H">>)]
        \o <<Str(<<"L", ",", "A">>), Str(<<"E", "N", "D">>)>>

InitSonda == InitPrograma /\ porLlegar = Unir(TramasSonda)

NextSonda == Llegar \/ AbrirPuerto \/ Iterar \/ Probar

SpecSonda == InitSonda /\ [][NextSonda]_vars

(***************************************************************************)
(* SpecLector: leerLineaSerial called on a port that receives chunks of    *)
(* bytes: terminators alone and in pairs, short pieces of lines, and a     *)
(* piece so long that two of them overflow bufferInterno                   *)
(***************************************************************************)
TrozoLargo == [i \in 1..200 |-> Ord("A") + (i % 26)]

Trozos ==
    {<<LF>>, <<CR, LF>>, Str(<<"L", ",", "A">>), Str(<<"E", "N">>), TrozoLargo}

\* the sender writes a chunk; it is in the port at once
EscribirTrozo(t) ==
    /\ enviadas.total < MaxTrozos
    /\ wire' = wire \o t
    /\ enviadas' = [enviadas EXCEPT !.total = @ + 1]
    /\ UNCHANGED <<rotor, carga, buffer, tramasRecibidas, bufferInterno, pc,
                   puerto, memoria, mensaje, porLlegar, giro, bitacora>>

\* leerLineaSerial(puerto, buffer, 256); the log keeps what was in the port
\* and in bufferInterno at the call, and what the call returned and left
LlamarLeerLineaSerial ==
    /\ LET r == leerLineaSerial(wire, bufferInterno, TamBuffer)
       IN  /\ wire' = r.wire
           /\ bufferInterno' = r.interno
           /\ buffer' = IF r.ok THEN r.linea ELSE buffer
           /\ bitacora' = Anotar(bitacora, [op |-> "leerLineaSerial",
                                            arg |-> wire,
                                            antes |-> bufferInterno,
                                            res |-> r])
    /\ UNCHANGED <<rotor, carga, tramasRecibidas, pc, puerto, memoria, mensaje,
                   porLlegar, enviadas, giro>>

NextLector ==
    \/ \E t \in Trozos : EscribirTrozo(t)
    \/ LlamarLeerLineaSerial

SpecLector == Init /\ [][NextLector]_vars

(***************************************************************************)
(* SpecLista: the ListaDeCarga object driven through its methods           *)
(***************************************************************************)
Datos == {Ord("A"), Ord(" "), NUL}

LlamarInsertarAlFinal(d) ==
    /\ Len(carga.dato) < MaxNodos
    /\ carga' = insertarAlFinal(carga, d)
    /\ bitacora' = Anotar(bitacora, [op |-> "insertarAlFinal", arg |-> d,
                                     antes |-> carga.cola, res |-> <<>>])
    /\ memoria' = Nuevo(memoria, <<"NodoCarga", Len(carga.dato) + 1>>)
    /\ UNCHANGED <<rotor, buffer, tramasRecibidas, bufferInterno, pc, puerto,
                   mensaje, wire, porLlegar, enviadas, giro>>

\* neither method assigns a member of the list
LlamarImprimirMensaje ==
    /\ bitacora' = Anotar(bitacora, [op |-> "imprimirMensaje", arg |-> 0,
                                     antes |-> carga.cola,
                                     res |-> imprimirMensaje(carga)])
    /\ UNCHANGED <<rotor, carga, buffer, tramasRecibidas, bufferInterno, pc,
                   puerto, memoria, mensaje, wire, porLlegar, enviadas, giro>>

LlamarImprimirConFormato ==
    /\ bitacora' = Anotar(bitacora, [op |-> "imprimirConFormato", arg |-> 0,
                                     antes |-> carga.cola,
                                     res |-> imprimirConFormato(carga)])
    /\ UNCHANGED <<rotor, carga, buffer, tramasRecibidas, bufferInterno, pc,
                   puerto, memoria, mensaje, wire, porLlegar, enviadas, giro>>

NextLista ==
    \/ \E d \in Datos : LlamarInsertarAlFinal(d)
    \/ LlamarImprimirMensaje
    \/ LlamarImprimirConFormato

SpecLista == Init /\ [][NextLista]_vars

(***************************************************************************)
(* SpecTramas: main fed L, and M, lines, well formed and not               *)
(***************************************************************************)
LineasCargaPrueba ==
    {Str(<<"L", ",", "A">>),
     Str(<<"L", ",", "S">>),
     Str(<<"L", ",", "S", "p", "a", "c", "e">>),
     Str(<<"L", ",", "S", "p", "a", "c", "e", "s">>),
     Str(<<"L", ",">>),
     Str(<<"L", ",", "A", "B">>)}

LineasMapaPrueba ==
    {Str(<<"M", ",", "3">>),
     Str(<<"M", ",", "1", "2">>),
     Str(<<"M", ",", "0", "0", "7">>),
     Str(<<"M", ",", "-", "2", "7">>),
     Str(<<"M", ",", "2", "1", "4", "7", "4", "8", "3", "6", "4", "7">>),
     Str(<<"M", ",", "-", "2", "1", "4", "7", "4", "8", "3", "6", "4", "8">>),
     Str(<<"M", ",", "2", "1", "4", "7", "4", "8", "3", "6", "4", "8">>),
     Str(<<"M", ",", "-", "4", "2", "9", "4", "9", "6", "7", "2", "9", "5">>),
     Str(<<"M", ",">>),
     Str(<<"M", ",", "-">>),
     Str(<<"M", ",", "a", "b", "c">>),
     Str(<<"M", ",", "2", "x">>)}

LineasPrueba == LineasCargaPrueba \cup LineasMapaPrueba

\* the sender writes one of the lines, paced as in Enviar
EnviarPrueba(l) ==
    /\ porLlegar = <<>>
    /\ wire = <<>>
    /\ enviadas.total < MaxPrueba
    /\ porLlegar' = l \o <<LF>>
    /\ enviadas' = [enviadas EXCEPT !.total = @ + 1]
    /\ UNCHANGED <<rotor, carga, buffer, tramasRecibidas, bufferInterno, pc,
                   puerto, memoria, mensaje, wire, giro, bitacora>>

NextTramas ==
    \/ \E l \in LineasPrueba : EnviarPrueba(l)
    \/ Llegar
    \/ AbrirPuerto
    \/ Iterar

SpecTramas == Init /\ [][NextTramas]_vars

(***************************************************************************)
(* Properties of RotorDeMapeo (SpecRotor)                                  *)
(***************************************************************************)
\* the alphabetic index of a letter, A = a = 0 .. Z = z = 25
Indice(in) == IF in >= Ord("a") THEN in - Ord("a") ELSE in - Ord("A")

Ultima == bitacora[Len(bitacora)]

\* the rotor as it was when the call b was made
RotorEn(b) == [rotor EXCEPT !.cabeza = b.antes]

\* C1: in every rotor state, with s the sum of the deltas rotated so far
\* mod 26, getMapeo returns for a letter of index i the letter of index
\* (i + s) mod 26; after rotar(2), A gives C and W gives Y
C1_MapeoDesplazado ==
    \A in \in Letras :
        getMapeo(rotor, in) = Ord("A") + ((Indice(in) + giro) % 26)

\* C3: rotar(n) leaves the rotor at position (old position + n) mod 26, a
\* value of 0..25, for positive, negative and zero n and for |n| >= 26
C3_RotarModulo26 ==
    (bitacora # <<>> /\ Ultima.op = "rotar") =>
        /\ Posicion(rotor) \in 0..25
        /\ Posicion(rotor) = (Posicion(RotorEn(Ultima)) + Ultima.arg) % 26

\* a backward rotation of more than a full revolution has been made from A
C3_Testigo ==
    /\ bitacora # <<>>
    /\ Ultima.op = "rotar"
    /\ Ultima.arg = -27
    /\ Posicion(RotorEn(Ultima)) = 0
    /\ Posicion(rotor) = 25

\* C4: when the deltas rotated so far sum to a multiple of 26, getMapeo
\* returns for every symbol what it returns on a newly constructed rotor
C4_IdentidadDeRotacion ==
    giro = 0 =>
        \A in \in Char : getMapeo(rotor, in) = getMapeo(RotorDeMapeo, in)

\* two rotations, neither a multiple of 26, that sum to 26
C4_Testigo ==
    /\ Len(bitacora) = 2
    /\ bitacora[1].op = "rotar" /\ bitacora[1].arg = 27
    /\ bitacora[2].op = "rotar" /\ bitacora[2].arg = -1
    /\ giro = 0

\* C5: rotar(n) followed by rotar(-n) puts cabeza back where it was and
\* getMapeo returns for every symbol what it returned before the two calls
C5_LeyInversa ==
    (/\ Len(bitacora) = 2
     /\ bitacora[1].op = "rotar"
     /\ bitacora[2].op = "rotar"
     /\ bitacora[2].arg = -bitacora[1].arg) =>
        /\ rotor.cabeza = bitacora[1].antes
        /\ \A in \in Char :
               getMapeo(rotor, in) = getMapeo(RotorEn(bitacora[1]), in)

\* rotar(-27) then rotar(27) from a rotor that had already been rotated
C5_Testigo ==
    /\ Len(bitacora) = 2
    /\ bitacora[1].op = "rotar" /\ bitacora[1].arg = -27
    /\ bitacora[2].op = "rotar" /\ bitacora[2].arg = 27
    /\ Posicion(RotorEn(bitacora[1])) = 5
    /\ Posicion(rotor) = 5

\* C6: in every rotor state getMapeo returns unchanged every symbol that is
\* not one of the 26 letters in either case
C6_PasoDirecto ==
    /\ \A in \in Char \ Letras : getMapeo(rotor, in) = in
    /\ (bitacora # <<>> /\ Ultima.op = "getMapeo" /\ Ultima.arg \notin Letras)
           => Ultima.res = Ultima.arg

\* getMapeo has been called with a space on a rotated rotor
C6_Testigo ==
    /\ bitacora # <<>>
    /\ Ultima.op = "getMapeo"
    /\ Ultima.arg = Ord(" ")
    /\ Ultima.res = Ord(" ")
    /\ Posicion(rotor) = 3

\* C21: in every rotor state getMapeo gives for a lowercase letter what it
\* gives for the same letter in uppercase, and gives an uppercase letter for
\* every letter
C21_SiempreMayuscula ==
    /\ \A x \in Ord("a")..Ord("z") :
           getMapeo(rotor, x) = getMapeo(rotor, x - (Ord("a") - Ord("A")))
    /\ \A x \in Letras : getMapeo(rotor, x) \in Ord("A")..Ord("Z")
    /\ (bitacora # <<>> /\ Ultima.op = "getMapeo" /\ Ultima.arg \in Letras)
           => Ultima.res \in Ord("A")..Ord("Z")

\* getMapeo has been called with a lowercase letter on a rotor turned back
C21_Testigo ==
    /\ bitacora # <<>>
    /\ Ultima.op = "getMapeo"
    /\ Ultima.arg = Ord("w")
    /\ Ultima.res \in Ord("A")..Ord("Z")
    /\ Posicion(rotor) = 24

\* the letter after c in the alphabet, A after Z
LetraSiguiente(c) == IF c = Ord("Z") THEN Ord("A") ELSE c + 1

\* the ring holds each of A..Z once, siguiente leads to the next letter and
\* previo is the inverse of siguiente
AnilloIntacto ==
    /\ rotor.cabeza \in NodosRotor
    /\ {rotor.dato[k] : k \in NodosRotor} = Ord("A")..Ord("Z")
    /\ \A k \in NodosRotor :
           /\ rotor.siguiente[k] \in NodosRotor
           /\ rotor.previo[k] \in NodosRotor
           /\ rotor.dato[rotor.siguiente[k]] = LetraSiguiente(rotor.dato[k])
           /\ rotor.previo[rotor.siguiente[k]] = k
           /\ rotor.siguiente[rotor.previo[k]] = k

\* the step keeps letters and links, and moves the head only in a call of
\* rotar
SoloCambiaLaCabeza ==
    /\ rotor'.dato = rotor.dato
    /\ rotor'.siguiente = rotor.siguiente
    /\ rotor'.previo = rotor.previo
    /\ rotor'.cabeza # rotor.cabeza =>
           /\ bitacora' # <<>>
           /\ bitacora'[Len(bitacora')].op = "rotar"
           /\ bitacora'[Len(bitacora')].antes = rotor.cabeza

\* C15: in every state the ring is intact; no call changes the letters or the
\* links, and the head moves only in a call of rotar
C15_AnilloDelRotor == []AnilloIntacto /\ [][SoloCambiaLaCabeza]_vars

\* the head was moved back to Z by rotar and getMapeo was called after it
C15_Testigo ==
    /\ Len(bitacora) = 2
    /\ bitacora[1].op = "rotar"
    /\ bitacora[2].op = "getMapeo"
    /\ rotor.dato[rotor.cabeza] = Ord("Z")

(***************************************************************************)
(* Properties of main (Spec, SpecEscenario)                                *)
(***************************************************************************)
\* this step read a line: only then does main count one more
LeyoLinea == tramasRecibidas' = tramasRecibidas + 1

EmpiezaCon(l, prefijo) ==
    Len(l) >= Len(prefijo) /\ \A i \in 1..Len(prefijo) : l[i] = prefijo[i]

\* C2: after the twelve lines of the example the list holds H O L C ' ' Y O R
\* L D; the rotor is at 2 after M,2 and back at 0 after M,-2
C2_Escenario ==
    /\ tramasRecibidas \in 4..7 => Posicion(rotor) = 2
    /\ tramasRecibidas >= 8 => Posicion(rotor) = 0
    /\ tramasRecibidas = 12 =>
           imprimirMensaje(carga) =
               Str(<<"H", "O", "L", "C", " ", "Y", "O", "R", "L", "D">>)

\* C7: a step that reads an L, line appends to the rendered list exactly the
\* symbol getMapeo gives with the rotor as it is at that step, and no other
\* step (a REMAP among them) changes the rendered list
C7_OrdenDeLlegada ==
    [][IF LeyoLinea /\ EmpiezaCon(buffer', Str(<<"L", ",">>))
       THEN imprimirMensaje(carga') =
                Append(imprimirMensaje(carga),
                       getMapeo(rotor, IF buffer' = Str(<<"L", ",", "S", "p", "a", "c", "e">>)
                                       THEN Ord(" ") ELSE buffer'[3]))
       ELSE imprimirMensaje(carga') = imprimirMensaje(carga)]_vars

\* two symbols were appended in order and a REMAP was processed after them
C7_Testigo ==
    /\ imprimirMensaje(carga) = Str(<<"W", " ">>)
    /\ buffer = Str(<<"M", ",", "2">>)
    /\ Posicion(rotor) = 2

\* a line that is neither L,... nor M,... nor END
NoReconocida(l) ==
    /\ ~EmpiezaCon(l, Str(<<"L", ",">>))
    /\ ~EmpiezaCon(l, Str(<<"M", ",">>))
    /\ l # Str(<<"E", "N", "D">>)

\* C8: a step that reads an unrecognized line leaves rotor and list as they
\* were and leaves the loop running
C8_LineaNoReconocida ==
    [][(LeyoLinea /\ NoReconocida(buffer')) =>
           /\ rotor' = rotor
           /\ carga' = carga
           /\ pc' # "fin"]_vars

\* C9: the step that reads the line END stops the loop without changing
\* rotor or list, and once stopped main reads and dispatches nothing more
C9_TramaDeFin ==
    [][/\ (LeyoLinea /\ buffer' = Str(<<"E", "N", "D">>)) =>
              /\ pc = "leer" /\ pc' = "fin"
              /\ rotor' = rotor
              /\ carga' = carga
       /\ pc = "fin" =>
              /\ UNCHANGED <<rotor, carga, buffer, tramasRecibidas,
                             bufferInterno, pc, mensaje>>
              /\ Len(wire') >= Len(wire)]_vars

\* END stopped the loop with symbols in the list, and a byte of a later line
\* waits unread in the port
C9_Testigo ==
    /\ pc = "fin"
    /\ buffer = Str(<<"E", "N", "D">>)
    /\ Len(imprimirMensaje(carga)) > 0
    /\ wire # <<>>

\* C10: a step that reads a line beginning with END and longer than END
\* does not stop the loop and leaves rotor and list as they were
C10_SoloENDExacto ==
    [][(LeyoLinea /\ EmpiezaCon(buffer', Str(<<"E", "N", "D">>))
                  /\ Len(buffer') > 3) =>
           /\ pc' # "fin"
           /\ rotor' = rotor
           /\ carga' = carga]_vars

(***************************************************************************)
(* Properties of the parsing of L, and M, lines (SpecTramas)               *)
(***************************************************************************)
\* everything after the two characters of the frame type
Payload(l) == SubSeq(l, 3, Len(l))

LiteralSpace == Str(<<"S", "p", "a", "c", "e">>)

\* the symbol the step added at the end of the list
Agregado == carga'.dato[Len(carga'.dato)]

\* C11: a step that reads an L, line appends the space when the payload is
\* Space, appends the mapping of the payload when the payload is one
\* character, and appends a space for no other payload
C11_LiteralSpace ==
    [][(LeyoLinea /\ EmpiezaCon(buffer', Str(<<"L", ",">>))) =>
           /\ Len(carga'.dato) = Len(carga.dato) + 1 =>
                  /\ Payload(buffer') = LiteralSpace => Agregado = Ord(" ")
                  /\ Len(Payload(buffer')) = 1 =>
                         Agregado = getMapeo(rotor, Payload(buffer')[1])
                  /\ Agregado = Ord(" ") =>
                         Payload(buffer') \in {LiteralSpace, Str(<<" ">>)}]_vars

\* an L, line with no payload, or with a payload of several characters
\* that is not Space
CargaMalFormada(l) ==
    /\ EmpiezaCon(l, Str(<<"L", ",">>))
    /\ Len(Payload(l)) # 1
    /\ Payload(l) # LiteralSpace

\* C12: a step that reads an L, line with a malformed payload leaves list and
\* rotor as they were and leaves the loop running
C12_CargaMalFormada ==
    [][(LeyoLinea /\ CargaMalFormada(buffer')) =>
           /\ carga' = carga
           /\ rotor' = rotor
           /\ pc' # "fin"]_vars

EsDigito(c) == c >= Ord("0") /\ c <= Ord("9")

\* an optional - followed by one or more decimal digits and nothing else
NumeralBienFormado(arg) ==
    LET digitos == IF arg # <<>> /\ arg[1] = Ord("-") THEN Tail(arg) ELSE arg
    IN  /\ digitos # <<>>
        /\ \A i \in 1..Len(digitos) : EsDigito(digitos[i])

\* C13: a step that reads an M, line whose argument is not a well-formed
\* signed decimal numeral leaves rotor and list as they were and leaves the
\* loop running
C13_MapaMalFormado ==
    [][(LeyoLinea /\ EmpiezaCon(buffer', Str(<<"M", ",">>))
                  /\ ~NumeralBienFormado(Payload(buffer'))) =>
           /\ rotor' = rotor
           /\ carga' = carga
           /\ pc' # "fin"]_vars

RECURSIVE ValorDeDigitos(_, _)
\* the value of a digit string taken with a sign (1 or -1), from its last
\* digit
ValorDeDigitos(ds, signo) ==
    IF ds = <<>> THEN 0
    ELSE signo * (ds[Len(ds)] - Ord("0"))
             + 10 * ValorDeDigitos(SubSeq(ds, 1, Len(ds) - 1), signo)

\* the signed integer a well-formed numeral denotes
ValorDeNumeral(arg) ==
    IF arg[1] = Ord("-") THEN ValorDeDigitos(Tail(arg), -1)
    ELSE ValorDeDigitos(arg, 1)

RECURSIVE SinCeros(_)
\* a digit string without its leading zeros
SinCeros(ds) ==
    IF ds # <<>> /\ ds[1] = Ord("0") THEN SinCeros(Tail(ds)) ELSE ds

RECURSIVE NoMayor(_, _)
\* of two digit strings of one length, the first does not denote more
NoMayor(a, b) ==
    IF a = <<>> THEN TRUE
    ELSE IF a[1] # b[1] THEN a[1] < b[1]
    ELSE NoMayor(Tail(a), Tail(b))

\* the value of a well-formed numeral fits the width of an int: it lies in
\* -2147483648 .. 2147483647, decided on the digits
CabeEnInt(arg) ==
    LET negativo == arg[1] = Ord("-")
        ds == SinCeros(IF negativo THEN Tail(arg) ELSE arg)
        tope == IF negativo
                THEN Str(<<"2", "1", "4", "7", "4", "8", "3", "6", "4", "8">>)
                ELSE Str(<<"2", "1", "4", "7", "4", "8", "3", "6", "4", "7">>)
    IN  Len(ds) < Len(tope) \/ (Len(ds) = Len(tope) /\ NoMayor(ds, tope))

\* C14: a step that reads M, followed by a well-formed numeral whose value
\* fits the width of an int parses the integer the numeral denotes and
\* rotates the rotor by it: the head moves that many places round the ring
\* of 26 and the rotor is what rotar gives
C14_ValorDelNumeral ==
    [][(LeyoLinea /\ EmpiezaCon(buffer', Str(<<"M", ",">>))
                  /\ NumeralBienFormado(Payload(buffer'))
                  /\ CabeEnInt(Payload(buffer'))) =>
           /\ Rotacion(buffer') = ValorDeNumeral(Payload(buffer'))
           /\ rotor' = rotar(rotor, ValorDeNumeral(Payload(buffer')))
           /\ Posicion(rotor') =
                  (Posicion(rotor) + (ValorDeNumeral(Payload(buffer')) % 26)) % 26]_vars

\* M,12 and then M,-2147483648 were read: 2^31 is 24 mod 26, and the rotor
\* stands at 12 - 24 = -12, place 14
C14_Testigo ==
    /\ tramasRecibidas = 2
    /\ buffer = Str(<<"M", ",", "-", "2", "1", "4", "7", "4", "8", "3", "6", "4", "8">>)
    /\ Posicion(rotor) = 14

(***************************************************************************)
(* Properties of the dispatch and of the end of the loop (Spec)            *)
(***************************************************************************)
\* the loop of main is running: the port is open and no break was taken
Corriendo(p) == p \in {"leer", "probar"}

\* C16: a step that reads an L, line appends exactly one symbol to the list
\* and leaves the rotor as it was; a step that reads an M, line leaves the
\* list as it was and changes nothing of the rotor but its head; after
\* either the loop is still running
C16_EfectoDeLasTramas ==
    [][/\ (LeyoLinea /\ EmpiezaCon(buffer', Str(<<"L", ",">>))) =>
              /\ Len(imprimirMensaje(carga')) = Len(imprimirMensaje(carga)) + 1
              /\ SubSeq(imprimirMensaje(carga'), 1, Len(imprimirMensaje(carga)))
                     = imprimirMensaje(carga)
              /\ rotor' = rotor
              /\ Corriendo(pc')
       /\ (LeyoLinea /\ EmpiezaCon(buffer', Str(<<"M", ",">>))) =>
              /\ carga' = carga
              /\ rotor' = [rotor EXCEPT !.cabeza = rotor'.cabeza]
              /\ Corriendo(pc')]_vars

\* M,-2 moved the head to Y and L,A then appended one symbol
C16_Testigo ==
    /\ buffer = Str(<<"L", ",", "A">>)
    /\ tramasRecibidas = 2
    /\ Posicion(rotor) = 24
    /\ imprimirMensaje(carga) = Str(<<"A">>)
    /\ pc = "leer"

\* what was rendered so far: nothing until the loop stops, and once it has
\* stopped one rendering, equal to the characters held by the list in the
\* order they were inserted
RenderizadoAlParar ==
    /\ pc = "fin" => mensaje = <<carga.dato>>
    /\ pc # "fin" => mensaje = <<>>

\* once the loop has stopped nothing is read, dispatched or rendered
DetenidoNoDespacha ==
    pc = "fin" => UNCHANGED <<pc, tramasRecibidas, buffer, carga, rotor, mensaje>>

\* C18: the list is rendered exactly once, when the loop stops, and the
\* rendering is the content of the list at that moment; nothing is rendered
\* while the loop runs and nothing is dispatched after it has stopped
C18_RenderizadoUnaVez == []RenderizadoAlParar /\ [][DetenidoNoDespacha]_vars

\* the loop stopped at the probe after fifteen lines, two symbols were
\* rendered and a line sent afterwards lies unread
C18_Testigo ==
    /\ pc = "fin"
    /\ tramasRecibidas = 15
    /\ buffer # Str(<<"E", "N", "D">>)
    /\ Len(mensaje) = 1
    /\ Len(mensaje[1]) = 2

(***************************************************************************)
(* Properties of the end of the stream (SpecEscenarioJusto, SpecFalla)     *)
(***************************************************************************)
\* C17: when the loop is running and the sender has nothing more to deliver
\* (no byte in transit and none unread in the port), the loop eventually
\* stops
C17_AgotamientoDetiene ==
    (Corriendo(pc) /\ porLlegar = <<>> /\ wire = <<>>) ~> (pc = "fin")

\* C19: once the port has failed the loop stops and renders the list
C19_FalloDetiene ==
    (puerto = "fallado") ~> (pc = "fin" /\ mensaje = <<carga.dato>>)

(***************************************************************************)
(* Properties of the heap (Spec)                                           *)
(***************************************************************************)
\* main has returned: after the loop, or because the port did not open
Terminado == pc \in {"fin", "error"}

\* C20: no frame object outlives the pass that created it and never more
\* than one was live; no delete was applied to an object that was not live;
\* while main runs, the list, the rotor, the 26 rotor nodes and one node per
\* inserted character are live; when main has returned, by any of its exits,
\* nothing is live
C20_SinFugas ==
    /\ TramasVivas(memoria) = {}
    /\ memoria.picoTramas <= 1
    /\ memoria.malLiberados = 0
    /\ Terminado => memoria.vivos = {}
    /\ ~Terminado =>
           memoria.vivos = MemoriaInicial.vivos
                              \cup {<<"NodoCarga", i>> : i \in 1..Len(carga.dato)}

\* the loop was stopped by END after a rotation and two insertions, and a
\* frame object had been created and deleted
C20_Testigo ==
    /\ pc = "fin"
    /\ buffer = Str(<<"E", "N", "D">>)
    /\ Len(carga.dato) = 2
    /\ rotor.cabeza # 0
    /\ memoria.picoTramas = 1
    /\ memoria.vivos = {}

(***************************************************************************)
(* Properties of the probe (SpecSonda)                                     *)
(***************************************************************************)
\* C22: the k-th line main has read and interpreted is the k-th line the
\* sender wrote, byte for byte
C22_NoPierdeBytes ==
    tramasRecibidas \in 1..Len(TramasSonda) =>
        buffer = TramasSonda[tramasRecibidas]

\* bytes ending in a line terminator after at least one other byte: what
\* leerLineaSerial would return as a line
HayLineaCompleta(bytes) ==
    \E i \in 1..Len(bytes) :
        /\ bytes[i] \in {LF, CR}
        /\ \E j \in 1..(i - 1) : bytes[j] \notin {LF, CR}

\* this step read a line that begins with END
LeyoFin == LeyoLinea /\ EmpiezaCon(buffer', Str(<<"E", "N", "D">>))

\* C23: a step that takes the loop out of running either read a line
\* recognized as END, or was a probe that found no byte to read when the
\* count of lines was a positive multiple of 15; and unless END was read, no
\* complete line lay unread in the port at that step
C23_CausasDeParada ==
    [][(Corriendo(pc) /\ ~Corriendo(pc')) =>
           /\ pc' = "fin"
           /\ \/ LeyoFin
              \/ /\ pc = "probar"
                 /\ tramasRecibidas' = tramasRecibidas
                 /\ tramasRecibidas > 0
                 /\ tramasRecibidas % 15 = 0
                 /\ wire = <<>>
           /\ ~LeyoFin => ~HayLineaCompleta(bufferInterno \o wire)]_vars

\* the probe after the fifteenth line found nothing to read and stopped the
\* loop while the sixteenth line was still on its way
C23_Testigo ==
    /\ pc = "fin"
    /\ tramasRecibidas = 15
    /\ porLlegar # <<>>
    /\ Len(mensaje) = 1

(***************************************************************************)
(* Properties of leerLineaSerial (SpecLector)                              *)
(***************************************************************************)
EsTerminador(c) == c \in {LF, CR}

SinTerminadores(bytes) == SelectSeq(bytes, LAMBDA c : ~EsTerminador(c))

\* the first n elements, or all when there are fewer
Primeros(bytes, n) == SubSeq(bytes, 1, IF Len(bytes) < n THEN Len(bytes) ELSE n)

\* the places of the terminators that end a line which is not empty, given
\* the partial line kept from earlier calls and the bytes in the port
FinesDeLinea(antes, disponibles) ==
    {i \in 1..Len(disponibles) :
        /\ EsTerminador(disponibles[i])
        /\ antes \o SinTerminadores(SubSeq(disponibles, 1, i - 1)) # <<>>}

\* what a call must return and leave, by the description of the reader: the
\* line is the partial line kept plus the bytes up to the first terminator
\* that ends a non-empty line, cut to 255; without such a terminator no line
\* is returned, the port is emptied and the bytes are kept
LecturaEsperada(antes, disponibles) ==
    LET fines == FinesDeLinea(antes, disponibles)
    IN  IF fines = {}
        THEN [ok |-> FALSE, linea |-> <<>>, wire |-> <<>>,
              interno |-> Primeros(antes \o SinTerminadores(disponibles), 255)]
        ELSE LET i == CHOOSE k \in fines : \A j \in fines : k <= j
             IN  [ok |-> TRUE,
                  linea |-> Primeros(antes \o SinTerminadores(
                                        SubSeq(disponibles, 1, i - 1)), 255),
                  wire |-> SubSeq(disponibles, i + 1, Len(disponibles)),
                  interno |-> <<>>]

\* C24: every call of leerLineaSerial returns what the description of the
\* reader gives; a line returned is not empty and holds no terminator; and
\* a call starts with the partial line the call before it kept
C24_LectorDeLineas ==
    /\ \A k \in 1..Len(bitacora) :
           /\ bitacora[k].res = LecturaEsperada(bitacora[k].antes, bitacora[k].arg)
           /\ bitacora[k].res.ok =>
                  /\ bitacora[k].res.linea # <<>>
                  /\ \A i \in 1..Len(bitacora[k].res.linea) :
                         ~EsTerminador(bitacora[k].res.linea[i])
    /\ Len(bitacora) = 2 => bitacora[2].antes = bitacora[1].res.interno
    /\ bitacora # <<>> => bufferInterno = Ultima.res.interno

\* a call found part of a line and no terminator and returned false; the
\* next call completed the line, which was longer than 255 and came back
\* cut to 255, beginning with the part kept
C24_Testigo ==
    /\ Len(bitacora) = 2
    /\ ~bitacora[1].res.ok
    /\ bitacora[1].res.interno = TrozoLargo
    /\ bitacora[2].res.ok
    /\ Len(bitacora[2].res.linea) = 255
    /\ Primeros(bitacora[2].res.linea, 200) = TrozoLargo
    /\ buffer = bitacora[2].res.linea

(***************************************************************************)
(* Properties of ListaDeCarga (SpecLista)                                  *)
(***************************************************************************)
\* the nodes created so far
NodosCarga == 1..Len(carga.dato)

RECURSIVE Visitados(_, _)
\* the nodes met following siguiente from a node, at most pasos of them
Visitados(actual, pasos) ==
    IF actual = Nulo \/ pasos = 0 THEN <<>>
    ELSE <<actual>> \o Visitados(carga.siguiente[actual], pasos - 1)

\* cabeza and cola are null together; otherwise nothing precedes cabeza,
\* nothing follows cola, previo undoes siguiente, and the walk from cabeza
\* meets every node once, in the order of insertion, and ends after cola
ListaBienFormada ==
    /\ carga.cabeza = Nulo <=> carga.cola = Nulo
    /\ carga.cabeza = Nulo => NodosCarga = {}
    /\ carga.cabeza # Nulo =>
           /\ carga.previo[carga.cabeza] = Nulo
           /\ carga.siguiente[carga.cola] = Nulo
           /\ \A n \in NodosCarga :
                  carga.siguiente[n] # Nulo =>
                      carga.previo[carga.siguiente[n]] = n
           /\ Visitados(carga.cabeza, Len(carga.dato) + 1)
                  = [i \in NodosCarga |-> i]
           /\ carga.cola = Len(carga.dato)

\* a step that calls one of the two printing methods leaves the list as it
\* was, and writes no character of the list when the list is empty
ImprimirNoCambia ==
    (bitacora' # bitacora /\ bitacora'[Len(bitacora')].op # "insertarAlFinal") =>
        /\ carga' = carga
        /\ carga.cabeza = Nulo => bitacora'[Len(bitacora')].res = <<>>
        /\ bitacora'[Len(bitacora')].op = "imprimirMensaje" =>
               bitacora'[Len(bitacora')].res = carga.dato
        /\ bitacora'[Len(bitacora')].op = "imprimirConFormato" =>
               Len(bitacora'[Len(bitacora')].res) = 3 * Len(carga.dato)

\* C25: after any sequence of insertarAlFinal calls the list is well formed,
\* and the printing methods leave it unchanged and visit nothing when it is
\* empty
C25_ListaBienFormada == []ListaBienFormada /\ [][ImprimirNoCambia]_vars

\* three characters were inserted and the list was then printed in both ways
C25_Testigo ==
    /\ Len(carga.dato) = 3
    /\ Len(bitacora) = 2
    /\ bitacora[1].op = "imprimirConFormato"
    /\ bitacora[2].op = "imprimirMensaje"
    /\ bitacora[2].res = <<Ord("A"), Ord(" "), NUL>>

====
